---- MODULE Spec2Model ----
(***************************************************************************)
(* Model of plot_speed_map.py: a GPX track is loaded, sampled, each        *)
(* sampled point is looked up on the Overpass API (one request at a time,  *)
(* a fixed sleep after each), and a folium map is built and saved.         *)
(*                                                                         *)
(* Python values are records [t, s, n]: t is the type tag, s the           *)
(* characters of a str, n the value of an int.  A str is a sequence of     *)
(* symbols: a digit, a sign, an underscore, a blank, or a run of           *)
(* non-numeric, non-blank characters written as one symbol ("mph",         *)
(* "FR:urban").                                                            *)
(***************************************************************************)
EXTENDS Integers, Sequences, FiniteSets, TLC

VARIABLES
    pc,              \* position in main()
    gpx_file,        \* the file named by --file: missing, invalid, or a track
    limit_speed,     \* args.limit_speed
    max_points,      \* args.max_points
    points,          \* main: points
    indices,         \* get_sample_points: indices (empty when not sampled)
    sampled_points,  \* main: sampled_points
    i,               \* collect_speed_data: loop index (0-based)
    results,         \* collect_speed_data: results
    console,         \* lines printed so far
    events,          \* requests, responses and sleeps, in order
    outstanding,     \* HTTP requests issued and not yet answered
    response,        \* query_max_speed: what the last request produced
    speed_map,       \* build_speed_map: speed_map and what was added to it
    cluster,         \* build_speed_map: cluster (MarkerCluster)
    groups,          \* build_speed_map: fast_group, slow_group, unknown_group
    files,           \* HTML files written by speed_map.save
    error,           \* the exception that ended the run, "none" otherwise
    val,             \* parse_speed: argument (resolver specification)
    ret              \* parse_speed: outcome (resolver specification)

vars == <<pc, gpx_file, limit_speed, max_points, points, indices,
          sampled_points, i, results, console, events, outstanding,
          response, speed_map, cluster, groups, files, error, val, ret>>

----------------------------------------------------------------------------
(* Bounds *)

MaxTrack == 2
MaxLen == 6
MaxRawLen == 3

----------------------------------------------------------------------------
(* Python values *)

PyNone == [t |-> "none", s |-> <<>>, n |-> 0]
PyStr(chars) == [t |-> "str", s |-> chars, n |-> 0]
PyInt(k) == [t |-> "int", s |-> <<>>, n |-> k]
PyList == [t |-> "list", s |-> <<>>, n |-> 0]

Returned(v) == [exc |-> "none", ret |-> v]
Raised(e) == [exc |-> e, ret |-> PyNone]

Digit == {"0", "1", "3", "9"}
DigitVal == ("0" :> 0) @@ ("1" :> 1) @@ ("3" :> 3) @@ ("9" :> 9)
Whitespace == {" "}

SPEED_CODE_MAPPING ==
    (<<"FR:urban">> :> 50) @@ (<<"FR:rural">> :> 80) @@
    (<<"FR:trunk">> :> 110) @@ (<<"FR:motorway">> :> 130)

RECURSIVE lstrip(_)
lstrip(s) ==
    IF s = <<>> THEN <<>>
    ELSE IF Head(s) \in Whitespace THEN lstrip(Tail(s)) ELSE s

RECURSIVE takeword(_)
takeword(s) ==
    IF s = <<>> THEN <<>>
    ELSE IF Head(s) \in Whitespace THEN <<>>
    ELSE <<Head(s)>> \o takeword(Tail(s))

RECURSIVE split(_)
split(s) ==
    LET t == lstrip(s) IN
    IF t = <<>> THEN <<>>
    ELSE LET w == takeword(t) IN
         <<w>> \o split(SubSeq(t, Len(w) + 1, Len(t)))

RECURSIVE digits_value(_, _)
digits_value(s, acc) ==
    IF s = <<>> THEN acc
    ELSE IF Head(s) = "_" THEN digits_value(Tail(s), acc)
    ELSE digits_value(Tail(s), 10 * acc + DigitVal[Head(s)])

is_int_literal(tok) ==
    LET body == IF tok # <<>> /\ tok[1] \in {"+", "-"} THEN Tail(tok) ELSE tok IN
    /\ body # <<>>
    /\ body[1] \in Digit
    /\ body[Len(body)] \in Digit
    /\ \A k \in 1..Len(body) : body[k] \in Digit \cup {"_"}
    /\ \A k \in 1..(Len(body) - 1) : ~(body[k] = "_" /\ body[k + 1] = "_")

py_int(tok) ==
    IF ~is_int_literal(tok) THEN Raised("ValueError")
    ELSE LET neg == tok[1] = "-"
             body == IF tok[1] \in {"+", "-"} THEN Tail(tok) ELSE tok
             mag == digits_value(body, 0)
         IN Returned(PyInt(IF neg THEN 0 - mag ELSE mag))

parse_speed_try(v) ==
    IF v.t = "list" THEN Raised("TypeError")
    ELSE IF v.t = "str" /\ v.s \in DOMAIN SPEED_CODE_MAPPING
         THEN Returned(PyInt(SPEED_CODE_MAPPING[v.s]))
    ELSE IF v.t # "str" THEN Raised("AttributeError")
    ELSE LET toks == split(v.s) IN
         IF toks = <<>> THEN Raised("IndexError")
         ELSE py_int(toks[1])

parse_speed_except_bug(r) ==
    IF r.exc \in {"ValueError", "TypeError", "AttributeError"}
    THEN Returned(PyNone) ELSE r

parse_speed_except(r) ==
    IF r.exc # "none" THEN Returned(PyNone) ELSE r

parse_speed(v) == parse_speed_except(parse_speed_try(v))

----------------------------------------------------------------------------
(* load_gpx_points, get_sample_points *)

Point == {<<0, 1>>, <<1, 0>>}

RECURSIVE SeqsUpTo(_, _)
SeqsUpTo(S, k) ==
    IF k = 0 THEN {<<>>}
    ELSE LET shorter == SeqsUpTo(S, k - 1) IN
         shorter \cup {Append(q, x) : q \in {r \in shorter : Len(r) = k - 1}, x \in S}

(* open() and gpxpy.parse raise on a missing or malformed file; otherwise the
   points of every track and segment are returned in file order. *)
load_gpx_points(file) ==
    IF file.kind = "missing" THEN Raised("FileNotFoundError")
    ELSE IF file.kind = "invalid" THEN Raised("GPXXMLSyntaxException")
    ELSE [exc |-> "none", ret |-> file.pts]

(* The positions 0 < k < num-1 at which k * (stop / (num-1)) is a whole number.
   linspace evaluates the product in float64, where it can fall just below
   that number (first at stop = 30, num = 23), and the conversion to int then
   truncates it one lower.  Sample chooses among these positions. *)
InexactPositions(stop, num) ==
    IF num < 3 THEN {}
    ELSE {k \in 1..(num - 2) : (k * stop) % (num - 1) = 0}

(* np.linspace(0, stop, num, dtype=int): num < 0 raises; num = 1 yields the
   start alone; the last of num > 1 samples is set to stop exactly. *)
linspace_bug(stop, num, low) ==
    IF num < 0 THEN Raised("ValueError")
    ELSE [exc |-> "none",
          ret |-> [k \in 1..num |->
                     ((k - 1) * stop) \div (IF num = 1 THEN 1 ELSE num)]]

linspace(stop, num, low) ==
    IF num < 0 THEN Raised("ValueError")
    ELSE [exc |-> "none",
          ret |-> [k \in 1..num |->
                     IF num = 1 THEN 0
                     ELSE IF k = num THEN stop
                     ELSE ((k - 1) * stop) \div (num - 1)
                            - (IF (k - 1) \in low THEN 1 ELSE 0)]]

sample_guard_bug(n, max) == n >= max

sample_guard(n, max) == n <= max

get_sample_points(pts, max, low) ==
    IF sample_guard(Len(pts), max)
    THEN [exc |-> "none", ret |-> pts, indices |-> <<>>]
    ELSE LET ls == linspace(Len(pts) - 1, max, low) IN
         IF ls.exc # "none" THEN [exc |-> ls.exc, ret |-> <<>>, indices |-> <<>>]
         ELSE IF \E k \in 1..Len(ls.ret) : ls.ret[k] \notin 0..(Len(pts) - 1)
         THEN [exc |-> "IndexError", ret |-> <<>>, indices |-> ls.ret]
         ELSE [exc |-> "none",
               ret |-> [k \in 1..Len(ls.ret) |-> pts[ls.ret[k] + 1]],
               indices |-> ls.ret]

----------------------------------------------------------------------------
(* query_max_speed *)

TagValues ==
    {PyStr(<<"FR:motorway">>), PyStr(<<"9", "0", " ", "mph">>),
     PyStr(<<"0">>), PyStr(<<"variable">>)}

(* One element of the response's 'elements': without 'tags', with tags that
   lack 'maxspeed', with a maxspeed tag, or not a JSON object at all. *)
Element ==
    {[tags |-> k, maxspeed |-> PyNone] : k \in {"absent", "other", "not_dict"}}
    \cup {[tags |-> "maxspeed", maxspeed |-> v] : v \in TagValues}

MaxElements == 2

(* What requests.post and response.json() can produce. *)
NoResponse == [kind |-> "none", status |-> 0, elements |-> <<>>]

LookupResponse ==
    {[kind |-> k, status |-> 0, elements |-> <<>>] : k \in {"ConnectionError", "Timeout"}}
    \cup {[kind |-> "http", status |-> c, elements |-> <<>>] : c \in {429, 504}}
    \cup {[kind |-> k, status |-> 200, elements |-> <<>>] : k \in {"bad_json", "no_elements"}}
    \cup {[kind |-> "http", status |-> 200, elements |-> es] :
            es \in SeqsUpTo(Element, MaxElements)}

(* The try block: the exception raised, or the value returned from inside it;
   a status other than 200 falls through to the final return None. *)
query_max_speed_try(resp) ==
    IF resp.kind \in {"ConnectionError", "Timeout"} THEN Raised(resp.kind)
    ELSE IF resp.status # 200 THEN Returned(PyNone)
    ELSE IF resp.kind = "bad_json" THEN Raised("JSONDecodeError")
    ELSE IF resp.kind = "no_elements" THEN Raised("KeyError")
    ELSE IF \E k \in 1..Len(resp.elements) : resp.elements[k].tags = "not_dict"
         THEN Raised("AttributeError")
    ELSE LET tagged(el) == el.tags = "maxspeed"
             speeds == SelectSeq(resp.elements, tagged)
         IN IF speeds # <<>> THEN Returned(speeds[1].maxspeed) ELSE Returned(PyNone)

(* except Exception: print the error, return None. *)
query_max_speed_except_bug(r) ==
    IF r.exc \in {"ConnectionError", "Timeout"}
    THEN [exc |-> "none", ret |-> PyNone, api_error |-> r.exc]
    ELSE [exc |-> r.exc, ret |-> r.ret, api_error |-> "none"]

query_max_speed_except(r) ==
    IF r.exc # "none"
    THEN [exc |-> "none", ret |-> PyNone, api_error |-> r.exc]
    ELSE [exc |-> "none", ret |-> r.ret, api_error |-> "none"]

query_max_speed(resp) == query_max_speed_except(query_max_speed_try(resp))

----------------------------------------------------------------------------
(* Console lines and events *)

Line(kind, idx, speed, highlight) ==
    [kind |-> kind, idx |-> idx, speed |-> speed, highlight |-> highlight]

Event(e, k, pt, ok) == [e |-> e, k |-> k, pt |-> pt, ok |-> ok]

NoPoint == <<>>

(* Lines 86-93 of collect_speed_data: the progress line of point idx. *)
progress_line(idx, max_speed, limit) ==
    IF max_speed # PyNone
    THEN LET pr == parse_speed(max_speed) IN
         IF pr.exc # "none" THEN [exc |-> pr.exc, line |-> Line("none", idx, PyNone, FALSE)]
         ELSE IF pr.ret # PyNone /\ pr.ret.n >= limit
              THEN [exc |-> "none", line |-> Line("km/h", idx, pr.ret, TRUE)]
              ELSE [exc |-> "none", line |-> Line("km/h", idx, pr.ret, FALSE)]
    ELSE [exc |-> "none", line |-> Line("Unknown speed", idx, PyNone, FALSE)]

(* time.sleep(1.2) at the end of each iteration. *)
rate_limit_sleep_bug(ev, k, max_speed) ==
    IF max_speed # PyNone THEN Append(ev, Event("sleep", k, NoPoint, TRUE)) ELSE ev

rate_limit_sleep(ev, k, max_speed) == Append(ev, Event("sleep", k, NoPoint, TRUE))

----------------------------------------------------------------------------
(* get_bounding_box, get_fuel_stations, add_fuel_stations_to_map *)

SeqMin(q) == CHOOSE x \in {q[k] : k \in 1..Len(q)} : \A k \in 1..Len(q) : x <= q[k]
SeqMax(q) == CHOOSE x \in {q[k] : k \in 1..Len(q)} : \A k \in 1..Len(q) : x >= q[k]

(* min() and max() of an empty list raise ValueError. *)
get_bounding_box(pts) ==
    IF pts = <<>> THEN [exc |-> "ValueError", ret |-> <<>>]
    ELSE LET lats == [k \in 1..Len(pts) |-> pts[k][1]]
             lons == [k \in 1..Len(pts) |-> pts[k][2]]
         IN [exc |-> "none",
             ret |-> <<SeqMin(lats), SeqMin(lons), SeqMax(lats), SeqMax(lons)>>]

(* A node of the result: its fuel:octane_95 and fuel:octane_98 tags and
   whether it has a name tag. *)
FuelNode(o95, o98, named) ==
    [loc |-> <<0, 0>>, octane_95 |-> o95, octane_98 |-> o98, named |-> named]

(* api.query raises (network failure, rate limit, bad request) or returns
   the matching nodes. *)
FuelResponse ==
    {[kind |-> "OverpassError", nodes |-> <<>>],
     [kind |-> "ok", nodes |-> <<>>],
     [kind |-> "ok", nodes |-> <<FuelNode("yes", "yes", TRUE)>>],
     [kind |-> "ok", nodes |-> <<FuelNode("yes", "absent", FALSE),
                                 FuelNode("no", "yes", TRUE)>>]}

get_fuel_stations_bug(resp) ==
    IF resp.kind # "ok" THEN [exc |-> "none", ret |-> <<>>]
    ELSE [exc |-> "none",
          ret |-> [k \in 1..Len(resp.nodes) |->
                     [loc |-> resp.nodes[k].loc,
                      sp95 |-> resp.nodes[k].octane_95 = "yes",
                      sp98 |-> resp.nodes[k].octane_98 = "yes",
                      name |-> IF resp.nodes[k].named THEN "name" ELSE "Station-service"]]]

get_fuel_stations(resp) ==
    IF resp.kind # "ok" THEN [exc |-> resp.kind, ret |-> <<>>]
    ELSE [exc |-> "none",
          ret |-> [k \in 1..Len(resp.nodes) |->
                     [loc |-> resp.nodes[k].loc,
                      sp95 |-> resp.nodes[k].octane_95 = "yes",
                      sp98 |-> resp.nodes[k].octane_98 = "yes",
                      name |-> IF resp.nodes[k].named THEN "name" ELSE "Station-service"]]]

Marker(kind, loc, color, popup) ==
    [kind |-> kind, location |-> loc, color |-> color, popup |-> popup]

add_fuel_stations_to_map(map, stations) ==
    [map EXCEPT !.markers = @ \o
        [k \in 1..Len(stations) |->
            Marker("station", stations[k].loc,
                   IF stations[k].sp95 /\ stations[k].sp98 THEN "green" ELSE "orange",
                   [name |-> stations[k].name, sp98 |-> stations[k].sp98,
                    sp95 |-> stations[k].sp95])]]

----------------------------------------------------------------------------
(* build_speed_map *)

NoMap ==
    [created |-> FALSE, location |-> NoPoint, markers |-> <<>>, layers |-> <<>>,
     control |-> FALSE, legend |-> [shown |-> FALSE, limit |-> 0]]

NoGroups == [fast |-> <<>>, slow |-> <<>>, unknown |-> <<>>]

(* Lines 146-149: points[0] raises IndexError on an empty track, before the
   map is created and before the bounding box is taken. *)
build_prelude_bug(pts) ==
    IF pts = <<>> THEN [exc |-> "none", location |-> <<0, 0>>, bbox |-> <<0, 0, 0, 0>>]
    ELSE LET bb == get_bounding_box(pts) IN
         [exc |-> bb.exc, location |-> pts[1], bbox |-> bb.ret]

build_prelude(pts) ==
    IF pts = <<>> THEN [exc |-> "IndexError", location |-> NoPoint, bbox |-> <<>>]
    ELSE LET bb == get_bounding_box(pts) IN
         [exc |-> bb.exc, location |-> pts[1], bbox |-> bb.ret]

(* Lines 162-176: the marker of one observation.  An exception of
   parse_speed is caught here and the raw value becomes the label. *)
point_marker(pt, limit) ==
    LET pr == parse_speed(pt.maxspeed) IN
    IF pr.exc # "none"
    THEN Marker("point", <<pt.lat, pt.lon>>, "gray", [label |-> "raw", speed |-> pt.maxspeed])
    ELSE IF pr.ret # PyNone
    THEN Marker("point", <<pt.lat, pt.lon>>,
                IF pr.ret.n >= limit THEN "red" ELSE "blue",
                [label |-> "km/h", speed |-> pr.ret])
    ELSE Marker("point", <<pt.lat, pt.lon>>, "gray", [label |-> "Unknown", speed |-> PyNone])

point_markers(res, limit) == [k \in 1..Len(res) |-> point_marker(res[k], limit)]

(* filter(None, ...) keeps the truthy values: None and 0 are dropped. *)
truthy(v) == v.t = "int" /\ v.n # 0

(* max(filter(None, [s1, s2]), default=None) *)
seg_speed_of(s1, s2) ==
    LET kept == SelectSeq(<<s1, s2>>, truthy) IN
    IF kept = <<>> THEN PyNone
    ELSE IF Len(kept) = 1 THEN kept[1]
    ELSE IF kept[1].n >= kept[2].n THEN kept[1] ELSE kept[2]

PolyLine(p1, p2, color, label, speed) ==
    [locations |-> <<p1, p2>>, color |-> color, label |-> label, speed |-> speed]

(* Lines 180-203: the segment between observations k and k+1 and the group
   it is added to. *)
segment(res, k, limit) ==
    LET p1 == <<res[k].lat, res[k].lon>>
        p2 == <<res[k + 1].lat, res[k + 1].lon>>
        r1 == parse_speed(res[k].maxspeed)
        r2 == parse_speed(res[k + 1].maxspeed)
    IN IF r1.exc # "none" THEN [exc |-> r1.exc, group |-> "none", line |-> <<>>]
       ELSE IF r2.exc # "none" THEN [exc |-> r2.exc, group |-> "none", line |-> <<>>]
       ELSE LET seg_speed == seg_speed_of(r1.ret, r2.ret) IN
            IF seg_speed = PyNone
            THEN [exc |-> "none", group |-> "unknown",
                  line |-> PolyLine(p1, p2, "gray", "Unknown speed", PyNone)]
            ELSE IF seg_speed.n >= limit
            THEN [exc |-> "none", group |-> "fast",
                  line |-> PolyLine(p1, p2, "red", "km/h", seg_speed)]
            ELSE [exc |-> "none", group |-> "slow",
                  line |-> PolyLine(p1, p2, "blue", "km/h", seg_speed)]

(* The loop of lines 179-203 from segment k on: the groups once every
   segment is added, or the exception that ended the loop. *)
RECURSIVE draw_lines(_, _, _, _)
draw_lines(res, k, limit, g) ==
    IF k > Len(res) - 1 THEN [exc |-> "none", groups |-> g]
    ELSE LET sg == segment(res, k, limit) IN
         IF sg.exc # "none" THEN [exc |-> sg.exc, groups |-> g]
         ELSE draw_lines(res, k + 1, limit,
                         [g EXCEPT ![sg.group] = Append(@, sg.line)])

(* Lines 205-233: the three groups, the layer control and the legend are
   added to the map; the cluster of point markers is not (line 206). *)
add_layers(map, cl, g, limit) ==
    [map EXCEPT !.layers = @ \o <<[name |-> "fast", lines |-> g.fast],
                                  [name |-> "slow", lines |-> g.slow],
                                  [name |-> "unknown", lines |-> g.unknown]>>,
                !.control = TRUE,
                !.legend = [shown |-> TRUE, limit |-> limit]]

----------------------------------------------------------------------------
(* main *)

LimitSpeeds == {0, 110}

GpxFiles ==
    {[kind |-> k, pts |-> <<>>] : k \in {"missing", "invalid"}}
    \cup {[kind |-> "ok", pts |-> t] : t \in SeqsUpTo(Point, MaxTrack)}

Init ==
    /\ pc = "load"
    /\ gpx_file \in GpxFiles
    /\ limit_speed \in LimitSpeeds
    /\ max_points \in (0 - 1)..MaxTrack
    /\ points = <<>>
    /\ indices = <<>>
    /\ sampled_points = <<>>
    /\ i = 0
    /\ results = <<>>
    /\ console = <<>>
    /\ events = <<>>
    /\ outstanding = 0
    /\ response = NoResponse
    /\ speed_map = NoMap
    /\ cluster = <<>>
    /\ groups = NoGroups
    /\ files = <<>>
    /\ error = "none"
    /\ val = PyNone
    /\ ret = Returned(PyNone)

Abort(e) ==
    /\ pc' = "aborted"
    /\ error' = e

(* main, lines 242-243 *)
Load ==
    /\ pc = "load"
    /\ LET r == load_gpx_points(gpx_file) IN
       IF r.exc # "none"
       THEN /\ Abort(r.exc)
            /\ UNCHANGED <<points, console>>
       ELSE /\ points' = r.ret
            /\ console' = Append(console, Line("Total GPS points", Len(r.ret), PyNone, FALSE))
            /\ pc' = "sample"
            /\ error' = error
    /\ UNCHANGED <<response, gpx_file, limit_speed, max_points, indices, sampled_points, i,
                   results, events, outstanding, speed_map, cluster, groups,
                   files, val, ret>>

(* main, lines 244-245 *)
Sample ==
    /\ pc = "sample"
    /\ \E low \in SUBSET InexactPositions(Len(points) - 1, max_points) :
         LET r == get_sample_points(points, max_points, low) IN
         IF r.exc # "none"
         THEN /\ Abort(r.exc)
              /\ UNCHANGED <<sampled_points, indices, console>>
         ELSE /\ sampled_points' = r.ret
              /\ indices' = r.indices
              /\ console' = Append(console, Line("Sampled", Len(r.ret), PyNone, FALSE))
              /\ pc' = "collect_begin"
              /\ error' = error
    /\ UNCHANGED <<response, gpx_file, limit_speed, max_points, points, i, results, events,
                   outstanding, speed_map, cluster, groups, files, val, ret>>

(* collect_speed_data, lines 82-83 *)
CollectBegin ==
    /\ pc = "collect_begin"
    /\ results' = <<>>
    /\ i' = 0
    /\ console' = Append(console, Line("Querying Overpass API", 0, PyNone, FALSE))
    /\ pc' = "collect"
    /\ UNCHANGED <<response, gpx_file, limit_speed, max_points, points, indices,
                   sampled_points, events, outstanding, speed_map, cluster,
                   groups, files, error, val, ret>>

(* The next iteration of the loop at line 84 calls query_max_speed, which
   posts the request (line 58) and blocks until it is answered. *)
LookupRequest ==
    /\ pc = "collect"
    /\ i < Len(sampled_points)
    /\ events' = Append(events, Event("lookup_request", i + 1, sampled_points[i + 1], TRUE))
    /\ outstanding' = outstanding + 1
    /\ pc' = "await_lookup"
    /\ UNCHANGED <<response, gpx_file, limit_speed, max_points, points, indices,
                   sampled_points, i, results, console, speed_map, cluster,
                   groups, files, error, val, ret>>

(* The answer arrives: the rest of query_max_speed (lines 63-69), then lines
   86-95 of the loop body. *)
LookupRespond ==
    /\ pc = "await_lookup"
    /\ \E resp \in LookupResponse :
         LET q == query_max_speed(resp)
             pt == sampled_points[i + 1]
             logged == IF q.api_error # "none"
                       THEN Append(console, Line("API Error", i + 1, PyNone, FALSE))
                       ELSE console
             pl == progress_line(i + 1, q.ret, limit_speed)
         IN /\ outstanding' = outstanding - 1
            /\ response' = resp
            /\ events' = Append(events, Event("lookup_response", i + 1, pt,
                                              q.exc = "none" /\ q.ret # PyNone))
            /\ IF q.exc # "none"
               THEN /\ Abort(q.exc)
                    /\ UNCHANGED <<console, results>>
               ELSE IF pl.exc # "none"
               THEN /\ Abort(pl.exc)
                    /\ console' = logged
                    /\ UNCHANGED results
               ELSE /\ console' = Append(logged, pl.line)
                    /\ results' = Append(results, [lat |-> pt[1], lon |-> pt[2],
                                                   maxspeed |-> q.ret])
                    /\ pc' = "sleep"
                    /\ error' = error
    /\ UNCHANGED <<gpx_file, limit_speed, max_points, points, indices,
                   sampled_points, i, speed_map, cluster, groups, files, val, ret>>

(* collect_speed_data, line 96, and the step to the next iteration *)
Sleep ==
    /\ pc = "sleep"
    /\ events' = rate_limit_sleep(events, i + 1, results[i + 1].maxspeed)
    /\ i' = i + 1
    /\ response' = NoResponse
    /\ pc' = "collect"
    /\ UNCHANGED <<gpx_file, limit_speed, max_points, points, indices,
                   sampled_points, results, console, outstanding, speed_map,
                   cluster, groups, files, error, val, ret>>

(* The loop is exhausted, collect_speed_data returns (line 97) and
   build_speed_map runs up to the call of api.query (lines 146-150, 116-117). *)
BuildBegin ==
    /\ pc = "collect"
    /\ i = Len(sampled_points)
    /\ LET pre == build_prelude(sampled_points) IN
       IF pre.exc # "none"
       THEN /\ Abort(pre.exc)
            /\ UNCHANGED <<speed_map, events, outstanding>>
       ELSE /\ speed_map' = [NoMap EXCEPT !.created = TRUE, !.location = pre.location]
            /\ events' = Append(events, Event("fuel_request", 0, pre.bbox, TRUE))
            /\ outstanding' = outstanding + 1
            /\ pc' = "await_fuel"
            /\ error' = error
    /\ UNCHANGED <<response, gpx_file, limit_speed, max_points, points, indices,
                   sampled_points, i, results, console, cluster, groups, files,
                   val, ret>>

(* get_fuel_stations from the answer on (lines 117-129), then line 151 *)
FuelRespond ==
    /\ pc = "await_fuel"
    /\ \E resp \in FuelResponse :
         LET st == get_fuel_stations(resp) IN
         /\ outstanding' = outstanding - 1
         /\ events' = Append(events, Event("fuel_response", 0, NoPoint, resp.kind = "ok"))
         /\ IF st.exc # "none"
            THEN /\ Abort(st.exc)
                 /\ UNCHANGED speed_map
            ELSE /\ speed_map' = add_fuel_stations_to_map(speed_map, st.ret)
                 /\ pc' = "markers"
                 /\ error' = error
    /\ UNCHANGED <<response, gpx_file, limit_speed, max_points, points, indices,
                   sampled_points, i, results, console, cluster, groups, files,
                   val, ret>>

(* build_speed_map, lines 153-176 *)
AddMarkers ==
    /\ pc = "markers"
    /\ cluster' = point_markers(results, limit_speed)
    /\ pc' = "lines"
    /\ UNCHANGED <<response, gpx_file, limit_speed, max_points, points, indices,
                   sampled_points, i, results, console, events, outstanding,
                   speed_map, groups, files, error, val, ret>>

(* build_speed_map, lines 179-203 *)
DrawLines ==
    /\ pc = "lines"
    /\ LET d == draw_lines(results, 1, limit_speed, NoGroups) IN
       IF d.exc # "none"
       THEN /\ Abort(d.exc)
            /\ UNCHANGED groups
       ELSE /\ groups' = d.groups
            /\ pc' = "layers"
            /\ error' = error
    /\ UNCHANGED <<response, gpx_file, limit_speed, max_points, points, indices,
                   sampled_points, i, results, console, events, outstanding,
                   speed_map, cluster, files, val, ret>>

(* build_speed_map, lines 205-234 *)
AddLayers ==
    /\ pc = "layers"
    /\ speed_map' = add_layers(speed_map, cluster, groups, limit_speed)
    /\ pc' = "save"
    /\ UNCHANGED <<response, gpx_file, limit_speed, max_points, points, indices,
                   sampled_points, i, results, console, events, outstanding,
                   cluster, groups, files, error, val, ret>>

(* main, lines 248-251 *)
Save ==
    /\ pc = "save"
    /\ files' = Append(files, [name |-> "speed_map_<timestamp>.html",
                               content |-> speed_map])
    /\ console' = Append(console, Line("Map generated", 0, PyNone, FALSE))
    /\ pc' = "done"
    /\ UNCHANGED <<response, gpx_file, limit_speed, max_points, points, indices,
                   sampled_points, i, results, events, outstanding, speed_map,
                   cluster, groups, error, val, ret>>

Next ==
    \/ Load
    \/ Sample
    \/ CollectBegin
    \/ LookupRequest
    \/ LookupRespond
    \/ Sleep
    \/ BuildBegin
    \/ FuelRespond
    \/ AddMarkers
    \/ DrawLines
    \/ AddLayers
    \/ Save

Spec == Init /\ [][Next]_vars

----------------------------------------------------------------------------
(* get_sample_points on its own: every track of up to MaxLen points and
   every max_points from -1 to MaxLen + 1. *)

InitSampler ==
    /\ pc = "sample"
    /\ points \in SeqsUpTo(Point, MaxLen)
    /\ gpx_file = [kind |-> "ok", pts |-> points]
    /\ limit_speed = 110
    /\ max_points \in (0 - 1)..(MaxLen + 1)
    /\ indices = <<>>
    /\ sampled_points = <<>>
    /\ i = 0
    /\ results = <<>>
    /\ console = <<>>
    /\ events = <<>>
    /\ outstanding = 0
    /\ response = NoResponse
    /\ speed_map = NoMap
    /\ cluster = <<>>
    /\ groups = NoGroups
    /\ files = <<>>
    /\ error = "none"
    /\ val = PyNone
    /\ ret = Returned(PyNone)

NextSampler == Sample

SpecSampler == InitSampler /\ [][NextSampler]_vars

----------------------------------------------------------------------------
(* parse_speed on its own: None, a list, a number, and every str of up to
   MaxRawLen symbols. *)

Alphabet ==
    Digit \cup Whitespace \cup {"+", "-", "_", "mph"}
    \cup {"FR:urban", "FR:rural", "FR:trunk", "FR:motorway"}

RawValues ==
    {PyNone, PyList, PyInt(50)} \cup {PyStr(q) : q \in SeqsUpTo(Alphabet, MaxRawLen)}

InitResolver ==
    /\ pc = "parse"
    /\ val \in RawValues
    /\ ret = Returned(PyNone)
    /\ gpx_file = [kind |-> "missing", pts |-> <<>>]
    /\ limit_speed = 110
    /\ max_points = 0
    /\ points = <<>>
    /\ indices = <<>>
    /\ sampled_points = <<>>
    /\ i = 0
    /\ results = <<>>
    /\ console = <<>>
    /\ events = <<>>
    /\ outstanding = 0
    /\ response = NoResponse
    /\ speed_map = NoMap
    /\ cluster = <<>>
    /\ groups = NoGroups
    /\ files = <<>>
    /\ error = "none"

(* parse_speed, lines 71-78 *)
Resolve ==
    /\ pc = "parse"
    /\ ret' = parse_speed(val)
    /\ pc' = "parsed"
    /\ UNCHANGED <<gpx_file, limit_speed, max_points, points, indices,
                   sampled_points, i, results, console, events, outstanding,
                   response, speed_map, cluster, groups, files, error, val>>

NextResolver == Resolve

SpecResolver == InitResolver /\ [][NextResolver]_vars

----------------------------------------------------------------------------
(* Properties *)

Known(v) == v.t = "int"

(* The resolved speed of a raw value, as the program computes it. *)
Resolved(raw) == parse_speed(raw).ret

IndicesNonDecreasing ==
    \A k \in 1..(Len(indices) - 1) : indices[k] <= indices[k + 1]

OversizeResult ==
    /\ pc = "collect_begin"
    /\ Len(sampled_points) = max_points
    /\ sampled_points[1] = points[1]
    /\ sampled_points[max_points] = points[Len(points)]
    /\ Len(indices) = max_points
    /\ \A k \in 1..max_points : sampled_points[k] = points[indices[k] + 1]
    /\ IndicesNonDecreasing

(* C1, as stated: whenever len(points) > max_count >= 1, get_sample_points
   returns exactly max_count points, the first is points[0], the last is
   points[len(points)-1], and the input indices of the returned points are
   non-decreasing. *)
SamplerOversizeFromOne ==
    (pc # "sample" /\ Len(points) > max_points /\ max_points >= 1) => OversizeResult

(* C1, amended: the same for every max_count >= 2 (a single returned point
   cannot be both the first and the last input point). *)
SamplerOversize ==
    (pc # "sample" /\ Len(points) > max_points /\ max_points >= 2) => OversizeResult

SamplerOversizeWitness ==
    /\ pc = "collect_begin"
    /\ Len(points) = 5
    /\ max_points = 3
    /\ indices = <<0, 2, 4>>
    /\ points[1] # points[5]

(* C8: whenever len(points) <= max_count, get_sample_points returns the
   input sequence unchanged: same points, same order, same length. *)
SamplerIdentity ==
    (pc # "sample" /\ Len(points) <= max_points) =>
        (pc = "collect_begin" /\ sampled_points = points)

SamplerIdentityWitness ==
    /\ pc = "collect_begin"
    /\ Len(points) = 3
    /\ max_points = 3
    /\ sampled_points = points

(* The first whitespace-delimited token of a str: the longest run of
   non-blank symbols that starts at its first non-blank symbol. *)
FirstToken(q) ==
    LET nonblank == {k \in 1..Len(q) : q[k] \notin Whitespace} IN
    IF nonblank = {} THEN <<>>
    ELSE LET a == CHOOSE k \in nonblank : \A m \in nonblank : k <= m
             b == CHOOSE k \in a..Len(q) :
                    /\ \A m \in a..k : m \in nonblank
                    /\ (k = Len(q) \/ (k + 1) \notin nonblank)
         IN SubSeq(q, a, b)

ResolverRule(v) ==
    IF v.t # "str" THEN PyNone
    ELSE IF v.s \in DOMAIN SPEED_CODE_MAPPING THEN PyInt(SPEED_CODE_MAPPING[v.s])
    ELSE IF is_int_literal(FirstToken(v.s)) THEN py_int(FirstToken(v.s)).ret
    ELSE PyNone

(* C7: parse_speed never raises; it returns the table value when raw is
   exactly one of the symbolic codes, otherwise the integer value of the
   first whitespace-delimited token when that token parses as an integer
   (a unit suffix is ignored), otherwise unknown. *)
ResolverTotal ==
    pc = "parsed" => (ret.exc = "none" /\ ret.ret = ResolverRule(val))

ResolverTotalWitness ==
    /\ pc = "parsed"
    /\ val = PyStr(<<"9", " ", "mph">>)
    /\ ret = Returned(PyInt(9))

NetworkEvents ==
    SelectSeq(events, LAMBDA ev : ev.e \in {"lookup_request", "fuel_request"})

HasEvent(e, ok) == \E j \in 1..Len(events) : events[j].e = e /\ events[j].ok = ok

(* C6: when the input file is missing or unparseable, or holds zero points,
   no network request is issued, no output file is written, the run never
   completes, and where it stops it has aborted with an error. *)
EmptyTrackAbortsOffline ==
    (gpx_file.kind # "ok" \/ gpx_file.pts = <<>>) =>
        /\ NetworkEvents = <<>>
        /\ outstanding = 0
        /\ files = <<>>
        /\ pc # "done"
        /\ (~ENABLED Next) => (pc = "aborted" /\ error # "none")

EmptyTrackWitness ==
    /\ gpx_file.kind = "ok"
    /\ gpx_file.pts = <<>>
    /\ max_points >= 0
    /\ pc = "aborted"
    /\ error = "IndexError"

(* C4: the output file is written at most once, and only after loading,
   sampling, every per-point lookup, the fuel-station query and the map
   construction have completed; a failed fuel-station query propagates as an
   error, the run aborts and no file is written. *)
AtomicRun ==
    /\ Len(files) <= 1
    /\ files # <<>> =>
         /\ pc = "done"
         /\ points = gpx_file.pts
         /\ Len(results) = Len(sampled_points)
         /\ \A k \in 1..Len(sampled_points) :
              \E j \in 1..Len(events) :
                 events[j].e = "lookup_response" /\ events[j].k = k
         /\ HasEvent("fuel_response", TRUE)
         /\ outstanding = 0
         /\ speed_map.control
         /\ files[1].content = speed_map
    /\ HasEvent("fuel_response", FALSE) =>
         (pc = "aborted" /\ error = "OverpassError" /\ files = <<>>)

AtomicRunWitness ==
    /\ HasEvent("fuel_response", FALSE)
    /\ pc = "aborted"
    /\ Len(results) = 2
    /\ files = <<>>

(* What the lookup client is specified to return for a response: the
   maxspeed tag of the first element carrying one when the request succeeded
   with status 200 and a well-formed body, null in every other case. *)
LookupSucceeded(resp) ==
    /\ resp.kind = "http"
    /\ resp.status = 200
    /\ \A k \in 1..Len(resp.elements) : resp.elements[k].tags # "not_dict"

FirstTag(resp) ==
    LET tagged == {k \in 1..Len(resp.elements) : resp.elements[k].tags = "maxspeed"} IN
    IF ~LookupSucceeded(resp) \/ tagged = {} THEN PyNone
    ELSE resp.elements[CHOOSE k \in tagged : \A m \in tagged : k <= m].maxspeed

InCollect == pc \in {"collect_begin", "collect", "await_lookup", "sleep"}

(* C5: whatever each lookup produces, collect_speed_data does not raise and
   goes on to the next point; its list has one observation per sampled
   point, the i-th carrying the coordinates of the i-th sampled point, and a
   failed lookup (or one without a tag) leaves raw speed null. *)
LookupFailureNonFatal ==
    /\ Len(results) <= Len(sampled_points)
    /\ \A k \in 1..Len(results) :
         <<results[k].lat, results[k].lon>> = sampled_points[k]
    /\ pc = "sleep" =>
         (Len(results) = i + 1 /\ results[i + 1].maxspeed = FirstTag(response))
    /\ pc \in {"await_fuel", "markers", "lines", "layers", "save", "done"} =>
         Len(results) = Len(sampled_points)
    /\ InCollect => (error = "none" /\ ENABLED Next)
    /\ (pc = "aborted" /\ HasEvent("lookup_request", TRUE)) =>
         (Len(results) = Len(sampled_points) /\ HasEvent("fuel_request", TRUE))

LookupFailureWitness ==
    /\ pc = "sleep"
    /\ i = 1
    /\ response.kind = "bad_json"
    /\ results[1].maxspeed = PyNone
    /\ results[2].maxspeed = PyNone
    /\ \E j \in 1..Len(console) : console[j].kind = "API Error" /\ console[j].idx = 1

(* The event expected at position j of a run over n sampled points:
   request, response and sleep for each point in turn, then the
   fuel-station request and its response. *)
ExpectedEvent(j, ev) ==
    LET n == Len(sampled_points)
        q == (j - 1) \div 3
        r == (j - 1) % 3
    IN IF j <= 3 * n
       THEN /\ ev.k = q + 1
            /\ ev.e = (IF r = 0 THEN "lookup_request"
                       ELSE IF r = 1 THEN "lookup_response" ELSE "sleep")
            /\ r < 2 => ev.pt = sampled_points[q + 1]
       ELSE IF j = 3 * n + 1 THEN ev.e = "fuel_request"
       ELSE j = 3 * n + 2 /\ ev.e = "fuel_response"

(* C9: lookups are issued in sampled-track order with at most one request
   outstanding; exactly one sleep separates the completion of one lookup
   from the start of the next, whether the lookup succeeded or failed; the
   fuel-station query is issued only after the last lookup and its sleep. *)
ThrottledSequential ==
    /\ outstanding \in {0, 1}
    /\ \A j \in 1..Len(events) : ExpectedEvent(j, events[j])
    /\ outstanding = 1 <=>
         (events # <<>> /\ events[Len(events)].e \in {"lookup_request", "fuel_request"})
    /\ pc = "collect" => Len(events) = 3 * i

ThrottledSequentialWitness ==
    /\ Len(sampled_points) = 2
    /\ Len(events) = 7
    /\ events[7].e = "fuel_request"
    /\ results[1].maxspeed = PyNone
    /\ results[2].maxspeed # PyNone

ClaimedSegSpeed(s1, s2) ==
    IF ~Known(s1) /\ ~Known(s2) THEN PyNone
    ELSE IF ~Known(s2) THEN s1
    ELSE IF ~Known(s1) THEN s2
    ELSE IF s1.n >= s2.n THEN s1 ELSE s2

ClaimedSegment(k) ==
    LET p1 == <<results[k].lat, results[k].lon>>
        p2 == <<results[k + 1].lat, results[k + 1].lon>>
        sp == ClaimedSegSpeed(Resolved(results[k].maxspeed),
                              Resolved(results[k + 1].maxspeed))
    IN IF ~Known(sp)
       THEN [layer |-> "unknown", line |-> PolyLine(p1, p2, "gray", "Unknown speed", PyNone)]
       ELSE IF sp.n >= limit_speed
       THEN [layer |-> "fast", line |-> PolyLine(p1, p2, "red", "km/h", sp)]
       ELSE [layer |-> "slow", line |-> PolyLine(p1, p2, "blue", "km/h", sp)]

ClaimedLines(layer) ==
    LET all == [k \in 1..(Len(results) - 1) |-> ClaimedSegment(k)]
        mine == SelectSeq(all, LAMBDA sg : sg.layer = layer)
    IN [k \in 1..Len(mine) |-> mine[k].line]

(* C2: each segment between consecutive observations has the speed that is
   unknown when both endpoint speeds are unknown, the known one when exactly
   one is known, and the larger when both are known (0 and negative values
   included); it lies in the red layer when that speed >= threshold, in the
   blue layer when it is known and below, and in the gray layer only when
   both endpoint speeds are unknown. *)
SegmentClassification ==
    pc \in {"layers", "save", "done"} =>
        \A layer \in {"fast", "slow", "unknown"} :
            groups[layer] = ClaimedLines(layer)

ClaimedMarker(pt) ==
    LET sp == Resolved(pt.maxspeed) IN
    IF ~Known(sp)
    THEN Marker("point", <<pt.lat, pt.lon>>, "gray", [label |-> "Unknown", speed |-> PyNone])
    ELSE Marker("point", <<pt.lat, pt.lon>>,
                IF sp.n >= limit_speed THEN "red" ELSE "blue",
                [label |-> "km/h", speed |-> sp])

(* C3: the map build_speed_map returns holds exactly one marker per
   observation, red when the resolved speed >= threshold, blue when known
   and below, gray when unknown, its popup showing the speed or Unknown. *)
PointMarkersInMap ==
    pc \in {"save", "done"} =>
        SelectSeq(speed_map.markers, LAMBDA m : m.kind = "point")
            = [k \in 1..Len(results) |-> ClaimedMarker(results[k])]

(* C10: each observation has exactly one progress line; it reads Unknown
   speed exactly when the resolved speed is unknown, shows the resolved
   integer otherwise, and is highlighted exactly when the resolved speed is
   known and >= threshold. *)
ProgressLinesAgree ==
    \A k \in 1..Len(results) :
        LET lines == SelectSeq(console,
                         LAMBDA ln : ln.kind \in {"km/h", "Unknown speed"} /\ ln.idx = k)
            sp == Resolved(results[k].maxspeed)
        IN /\ Len(lines) = 1
           /\ lines[1].kind = "Unknown speed" <=> ~Known(sp)
           /\ Known(sp) => lines[1].speed = sp
           /\ lines[1].highlight <=> (Known(sp) /\ sp.n >= limit_speed)

====
